---- MODULE Spec2Model ----
(***************************************************************************)
(* Transaction admission of the devnet engine: add_invoke_transcation_v1   *)
(* and add_deploy_account_transaction execute a broadcast transaction on   *)
(* the pending state under a snapshot, index it as accepted or rejected,   *)
(* and revert the pending state when the executor fails.                   *)
(***************************************************************************)
EXTENDS Integers, Sequences, FiniteSets, TLC

\* ---------------------------------------------------------------- bounds
\* nonces a broadcast transaction may carry: 0..MaxNonce
MaxNonce == 1
\* distinct transaction hashes the index holds before new ones are refused
MaxTransactions == 2
\* blocks that are sealed
MaxBlocks == 1
\* broadcast bodies whose hashes are compared with each other
MaxHashed == 2
\* fee-token balance of a funded address
InitialBalance == 3

\* ------------------------------------------------------- program constants
\* gas price of the block context the tests build: get_block_context(1, ..)
GasPrice == 1
\* DEVNET_DEFAULT_CHAIN_ID, mixed into every transaction hash
ChainId == 1
\* the account class setup() declares before any transaction is added
AccountClassHash == 1
\* the account setup() deploys and funds
PredeployedAddress == 1

\* the account class and one class that only a Declare adds
ClassHashes == {AccountClassHash, 2}
Salts == {0}
Nonces == 0..MaxNonce
\* Fee(0) is refused at admission, Fee(2) covers every actual fee
Fees == {0, 2}
Params == {1}
\* BroadcastedTransactionCommon.signature: two signatures of a body
Signatures == {0, 1}

\* sir_deploy_account_transaction.contract_address(): the address derived
\* from (class_hash, salt, constructor_calldata = [], deployer = 0)
calculate_contract_address(class_hash, salt) ==
    PredeployedAddress + class_hash + 2 * salt

DerivedAddresses ==
    {calculate_contract_address(c, s) : c \in ClassHashes, s \in Salts}
Addresses == {PredeployedAddress} \cup DerivedAddresses

\* ------------------------------------------------------------ StateStore
\* address_to_class_hash: 0 stands for "not deployed"
EmptyState ==
    [address_to_class_hash |-> [a \in Addresses |-> 0],
     class_hash_to_contract_class |-> {},
     address_to_nonce |-> [a \in Addresses |-> 0],
     fee_token_balance |-> [a \in Addresses |-> 0],
     storage |-> 0]

\* the state setup() builds: ERC20 deployed, account class declared, the
\* account deployed and funded, and the balance cells in `funded` pre-funded
\* through change_storage, then synchronize_states()
\* the derived address the tests pre-fund before deploying the account class
FundedAddresses == {calculate_contract_address(AccountClassHash, 0)}

SetupState(funded) ==
    [EmptyState EXCEPT
        !.address_to_class_hash[PredeployedAddress] = AccountClassHash,
        !.class_hash_to_contract_class = {AccountClassHash},
        !.fee_token_balance = [a \in Addresses |->
            IF a = PredeployedAddress \/ a \in funded
            THEN InitialBalance ELSE 0]]

is_contract_declared(state, class_hash) ==
    class_hash \in state.class_hash_to_contract_class

is_contract_deployed(state, address) ==
    state.address_to_class_hash[address] # 0

\* -------------------------------------------------- broadcast transactions
\* accounts that send invokes: the predeployed one and the one a
\* DeployAccount of the account class creates
Senders == {PredeployedAddress} \cup FundedAddresses

BroadcastedInvokeTransactionV1 ==
    [sender_address : Senders, max_fee : Fees, nonce : Nonces,
     calldata : Params]

BroadcastedDeployAccountTransaction ==
    [class_hash : ClassHashes, contract_address_salt : Salts,
     max_fee : Fees, nonce : Nonces]

BroadcastedDeclareTransaction ==
    [sender_address : {PredeployedAddress}, max_fee : Fees, nonce : Nonces,
     class_hash : ClassHashes \ {AccountClassHash}]

\* hash_value(): the protocol hash over (chain_id, kind, fields of the
\* body), modelled as the mixed-radix number of those fields
FieldRadix == 8

RECURSIVE hash_fields(_)
hash_fields(fields) ==
    IF fields = <<>> THEN 0
    ELSE Head(fields) + FieldRadix * hash_fields(Tail(fields))

invoke_hash_value(tx, chain_id) ==
    hash_fields(<<1, chain_id, tx.sender_address, tx.max_fee, tx.nonce,
                  tx.calldata>>)

deploy_account_hash_value(tx, chain_id) ==
    hash_fields(<<2, chain_id, tx.class_hash, tx.contract_address_salt,
                  tx.max_fee, tx.nonce>>)

declare_hash_value(tx, chain_id) ==
    hash_fields(<<3, chain_id, tx.sender_address, tx.max_fee, tx.nonce,
                  tx.class_hash>>)

\* create_invoke_transaction / compile_deploy_account_transaction /
\* compile_declare: the broadcast body with its transaction hash
create_invoke_transaction(tx, transaction_hash) ==
    [transaction_hash |-> transaction_hash,
     variant |-> "Invoke",
     max_fee |-> tx.max_fee,
     nonce |-> tx.nonce,
     sender_address |-> tx.sender_address]

compile_deploy_account_transaction(tx, transaction_hash) ==
    [transaction_hash |-> transaction_hash,
     variant |-> "DeployAccount",
     max_fee |-> tx.max_fee,
     nonce |-> tx.nonce,
     sender_address |->
        calculate_contract_address(tx.class_hash, tx.contract_address_salt)]

compile_declare(tx, transaction_hash) ==
    [transaction_hash |-> transaction_hash,
     variant |-> "Declare",
     max_fee |-> tx.max_fee,
     nonce |-> tx.nonce,
     sender_address |-> tx.sender_address]

\* ------------------------------------------------------------- executor
\* resources a transaction of each kind uses; the fee is GasPrice times it
execution_resources(variant) ==
    IF variant = "DeployAccount" THEN 2 ELSE 1

calculate_tx_fee(variant) == GasPrice * execution_resources(variant)

ExecOk(state, actual_fee) ==
    [ok |-> TRUE, state |-> state, error |-> "None", actual_fee |-> actual_fee]

\* the executor failed; `state` holds the writes it made before failing
ExecErr(state, error) ==
    [ok |-> FALSE, state |-> state, error |-> error, actual_fee |-> 0]

\* charge_fee: the fee must fit max_fee and the sender's fee-token balance
charge_fee(state, sender, max_fee, variant) ==
    LET fee == calculate_tx_fee(variant)
    IN IF fee > max_fee THEN ExecErr(state, "ExecutionFailure")
       ELSE IF state.fee_token_balance[sender] < fee
       THEN ExecErr(state, "InsufficientBalance")
       ELSE ExecOk([state EXCEPT !.fee_token_balance[sender] = @ - fee], fee)

\* handle_nonce: tx.nonce must equal the current nonce, which then grows by 1
nonce_is_current(state, sender, nonce) ==
    state.address_to_nonce[sender] = nonce

increment_nonce(state, sender) ==
    [state EXCEPT !.address_to_nonce[sender] = @ + 1]

\* InvokeFunction::execute on the pending state: run the call (which writes
\* storage), then handle the nonce, then charge the fee
sir_invoke_execute(state, tx) ==
    LET sender == tx.sender_address
        called == [state EXCEPT !.storage = @ + tx.calldata]
    IN IF ~is_contract_deployed(state, sender)
       THEN ExecErr(state, "ExecutionFailure")
       ELSE IF ~nonce_is_current(called, sender, tx.nonce)
       THEN ExecErr(called, "InvalidNonce")
       ELSE charge_fee(increment_nonce(called, sender), sender, tx.max_fee,
                       "Invoke")

\* DeployAccount::execute on the pending state: deploy the class at the
\* derived address, then handle the nonce, then charge the fee
sir_deploy_account_execute(state, tx) ==
    LET address ==
            calculate_contract_address(tx.class_hash, tx.contract_address_salt)
        deployed ==
            [state EXCEPT !.address_to_class_hash[address] = tx.class_hash]
    IN IF ~is_contract_declared(state, tx.class_hash)
       THEN ExecErr(state, "UndeclaredClass")
       ELSE IF is_contract_deployed(state, address)
       THEN ExecErr(state, "AddressOccupied")
       ELSE IF ~nonce_is_current(deployed, address, tx.nonce)
       THEN ExecErr(deployed, "InvalidNonce")
       ELSE charge_fee(increment_nonce(deployed, address), address,
                       tx.max_fee, "DeployAccount")

\* Declare::execute on the pending state: handle the nonce, register the
\* class, then charge the fee
sir_declare_execute(state, tx) ==
    LET sender == tx.sender_address
        declared == [increment_nonce(state, sender) EXCEPT
                        !.class_hash_to_contract_class = @ \cup {tx.class_hash}]
    IN IF ~is_contract_deployed(state, sender)
       THEN ExecErr(state, "ExecutionFailure")
       ELSE IF ~nonce_is_current(state, sender, tx.nonce)
       THEN ExecErr(state, "InvalidNonce")
       ELSE IF is_contract_declared(state, tx.class_hash)
       THEN ExecErr(increment_nonce(state, sender), "ExecutionFailure")
       ELSE charge_fee(declared, sender, tx.max_fee, "Declare")

\* the accounts created at construction: the account setup() deploys
PredeployedAccounts ==
    <<[account_address |-> PredeployedAddress,
       public_key |-> 1,            \* dummy_felt()
       private_key |-> 1,           \* dummy_felt()
       initial_balance |-> InitialBalance]>>

\* ---------------------------------------------------------- engine state
VARIABLES
    pending_state,     \* starknet.state.pending_state
    committed_state,   \* the committed layer of starknet.state (BlockId Latest)
    transactions,      \* starknet.transactions: hash -> StarknetTransaction
    pending_block,     \* transaction hashes of the open block
    blocks,            \* sealed blocks, each with its state snapshot
    accepted,          \* history: per sender, the accepted transactions
    last,              \* the last call: its input and what it returned
    hashed,            \* history: broadcast bodies and the hashes derived
    predeployed_accounts,  \* the accounts created at construction
    response,          \* the Result of the last call when it is a query
    lock,              \* the read-write lock around the engine: its holders
    requests,          \* the add requests in flight, each with its position
    acquired,          \* history: the requests in write-lock order
    observed           \* what the reader holding the read lock has read

vars == <<pending_state, committed_state, transactions, pending_block,
          blocks, accepted, last, hashed, predeployed_accounts, response,
          lock, requests, acquired, observed>>

\* the lock and the requests of the server around the engine
server == <<lock, requests, acquired, observed>>

\* the add requests and the readers the server handles at the same time
Requests == {1, 2}
Readers == {1}

\* RwLock::new(starknet): nobody holds the lock
Unlocked == [writers |-> {}, readers |-> {}]

\* a request slot: phase is "idle", "waiting" (for the write lock), "locked"
\* (the handler starts), "executed" (the executor has run on the pending
\* state), "returned"; state_before_txn is the handler's snapshot
Request(phase, kind, tx, connected, state_before_txn) ==
    [phase |-> phase, kind |-> kind, tx |-> tx, connected |-> connected,
     state_before_txn |-> state_before_txn]

NoSnapshot == [variant |-> "None"]

NoRequest == Request("idle", "None", [variant |-> "None"], TRUE, NoSnapshot)

NoView == [variant |-> "None"]

NoInput == [variant |-> "None"]

\* what a call returned (ok, error, hash, address) and what its executor run
\* did: exec is "None" when the executor did not run, "Ok", or its error;
\* partial_writes tells whether a failed run had written to the pending state
Returned(op, input, ok, error, hash, address, exec, actual_fee, partial_writes) ==
    [op |-> op, input |-> input, ok |-> ok, error |-> error, hash |-> hash,
     address |-> address, exec |-> exec, actual_fee |-> actual_fee,
     partial_writes |-> partial_writes]

\* mutant: the type tag is the default TransactionType, Invoke
TransactionWithType_Default(type, transaction) ==
    [type |-> "INVOKE", transaction |-> transaction]

\* TransactionWithType { type, transaction }
TransactionWithType(type, transaction) ==
    [type |-> type, transaction |-> transaction]

\* StarknetTransaction::create_rejected
create_rejected(transaction_with_type, tx_err) ==
    [type |-> transaction_with_type.type,
     transaction |-> transaction_with_type.transaction,
     status |-> "Rejected",
     execution_error |-> tx_err,
     actual_fee |-> 0,
     block_number |-> 0]

\* StarknetTransaction::create_successful
create_successful(transaction_with_type, tx_info) ==
    [type |-> transaction_with_type.type,
     transaction |-> transaction_with_type.transaction,
     status |-> "AcceptedOnL2",
     execution_error |-> "None",
     actual_fee |-> tx_info.actual_fee,
     block_number |-> 0]

\* starknet.transactions.insert: the entry under the hash is set, replacing
\* an earlier entry under the same hash
insert(index, transaction_hash, transaction) ==
    [h \in DOMAIN index \cup {transaction_hash} |->
        IF h = transaction_hash THEN transaction ELSE index[h]]

\* Starknet::handle_successful_transaction: the hash joins the pending block
\* and the accepted transaction is indexed
handle_successful_transaction(transaction_hash, transaction_with_type, tx_info) ==
    /\ pending_block' = Append(pending_block, transaction_hash)
    /\ transactions' = insert(transactions, transaction_hash,
                              create_successful(transaction_with_type, tx_info))

\* TransactionWithType::max_fee: the max_fee of the transaction's body
max_fee(transaction_with_type) == transaction_with_type.transaction.max_fee

\* TransactionWithType::get_transaction_hash
get_transaction_hash(transaction_with_type) ==
    transaction_with_type.transaction.transaction_hash

\* TransactionWithType::create_common_receipt: actual_fee is the
\* transaction's max_fee, messages_sent is a new, empty, list
create_common_receipt(transaction_with_type, transaction_events, block_hash, block_number) ==
    [type |-> transaction_with_type.type,
     transaction_hash |-> get_transaction_hash(transaction_with_type),
     block_hash |-> block_hash,
     block_number |-> block_number,
     output |-> [actual_fee |-> max_fee(transaction_with_type),
                 messages_sent |-> <<>>,
                 events |-> transaction_events]]

\* get_receipt(hash): the common receipt of the transaction indexed under
\* the hash
get_receipt(index, transaction_hash) ==
    LET transaction == index[transaction_hash]
    IN create_common_receipt(
           TransactionWithType(transaction.type, transaction.transaction),
           <<>>, 0, transaction.block_number)

\* Transaction::get_type: the type tag of each variant
get_type(transaction) ==
    CASE transaction.variant = "Declare" -> "DECLARE"
      [] transaction.variant = "DeployAccount" -> "DEPLOY_ACCOUNT"
      [] transaction.variant = "Invoke" -> "INVOKE"

\* history of the accepted transactions of each sender
Accept(transaction) ==
    accepted' = [accepted EXCEPT ![transaction.sender_address] =
                    Append(@, [variant |-> transaction.variant,
                               nonce |-> transaction.nonce])]

\* ------------------------------------------------------------- block ids
\* Starknet::get_state_reader_at_mut: Pending reads the pending state,
\* Latest the committed state
get_state_reader_at(block_id) ==
    IF block_id = "Pending" THEN pending_state ELSE committed_state

\* StateReader: the storage cell of the invoked contract, an account's nonce
get_storage(state_reader) == state_reader.storage

get_nonce(state_reader, address) == state_reader.address_to_nonce[address]

\* BlockId: Pending, Latest, or the Number of a block; a Number names no
\* sealed block until that many blocks are sealed
BlockIds ==
    {[tag |-> "Pending"], [tag |-> "Latest"]}
        \cup [tag : {"Number"}, number : 1..MaxBlocks]

\* Result of a query: Ok(value) or Err(error)
Ok(value) == [ok |-> TRUE, value |-> value]
Err(error) == [ok |-> FALSE, error |-> error]
NoResponse == Err("None")

\* Starknet::get_state_reader_at_mut with the historical states: the Number
\* of a sealed block reads the snapshot stored at its seal, a Number that
\* names no sealed block fails with BlockNotFound
get_state_reader_at_mut(block_id) ==
    IF block_id.tag \in {"Pending", "Latest"}
    THEN Ok(get_state_reader_at(block_id.tag))
    ELSE IF block_id.number \in 1..Len(blocks)
    THEN Ok(blocks[block_id.number].state)
    ELSE Err("BlockNotFound")

\* the contract class declared under a class hash
ContractClass(class_hash) == [declared_as |-> class_hash]

\* StateReader::get_class_hash_at
state_reader_get_class_hash_at(state_reader, contract_address) ==
    IF is_contract_deployed(state_reader, contract_address)
    THEN Ok(state_reader.address_to_class_hash[contract_address])
    ELSE Err("ContractNotFound")

\* StateReader::get_contract_class
state_reader_get_contract_class(state_reader, class_hash) ==
    IF is_contract_declared(state_reader, class_hash)
    THEN Ok(ContractClass(class_hash))
    ELSE Err("ClassHashNotFound")

\* ----------------------------------------------------------- class queries
\* mutant: the class hash is read from the pending state for every block id
get_class_hash_at_impl_Pending(block_id, contract_address) ==
    LET state_reader == get_state_reader_at_mut(block_id)
    IN IF ~state_reader.ok THEN state_reader
       ELSE state_reader_get_class_hash_at(pending_state, contract_address)

get_class_hash_at_impl(block_id, contract_address) ==
    LET state_reader == get_state_reader_at_mut(block_id)
    IN IF ~state_reader.ok THEN state_reader
       ELSE state_reader_get_class_hash_at(state_reader.value, contract_address)

\* mutant: a block id that names no state reads the pending state
get_class_impl_Unrouted(block_id, class_hash) ==
    LET state_reader == get_state_reader_at_mut(block_id)
    IN IF ~state_reader.ok
       THEN state_reader_get_contract_class(pending_state, class_hash)
       ELSE state_reader_get_contract_class(state_reader.value, class_hash)

get_class_impl(block_id, class_hash) ==
    LET state_reader == get_state_reader_at_mut(block_id)
    IN IF ~state_reader.ok THEN state_reader
       ELSE state_reader_get_contract_class(state_reader.value, class_hash)

\* Starknet::get_class_hash_at and Starknet::get_class
get_class_hash_at(block_id, contract_address) ==
    get_class_hash_at_impl(block_id, contract_address)

get_class(block_id, class_hash) == get_class_impl(block_id, class_hash)

\* mutant: the class hash is looked up at Pending, not at the block id given
get_class_at_impl_PendingHash(block_id, contract_address) ==
    LET class_hash == get_class_hash_at([tag |-> "Pending"], contract_address)
    IN IF ~class_hash.ok THEN class_hash
       ELSE get_class(block_id, class_hash.value)

get_class_at_impl(block_id, contract_address) ==
    LET class_hash == get_class_hash_at(block_id, contract_address)
    IN IF ~class_hash.ok THEN class_hash
       ELSE get_class(block_id, class_hash.value)

\* --------------------------------------------------- predeployed accounts
\* ToDecimalString: the decimal digits of a number, most significant first
RECURSIVE to_decimal_string(_)
to_decimal_string(n) ==
    IF n < 10 THEN <<n>> ELSE to_decimal_string(n \div 10) \o <<n % 10>>

ContractAddressHex(address) == <<"ContractAddressHex", address>>

FeltHex(felt) == <<"FeltHex", felt>>

\* mutant: the balance reported is the account's current balance
SerializableAccount_CurrentBalance(acc) ==
    [initial_balance |->
        to_decimal_string(pending_state.fee_token_balance[acc.account_address]),
     address |-> ContractAddressHex(acc.account_address),
     public_key |-> FeltHex(acc.public_key),
     private_key |-> FeltHex(acc.private_key)]

\* |acc| SerializableAccount { .. }
SerializableAccount(acc) ==
    [initial_balance |-> to_decimal_string(acc.initial_balance),
     address |-> ContractAddressHex(acc.account_address),
     public_key |-> FeltHex(acc.public_key),
     private_key |-> FeltHex(acc.private_key)]

\* the endpoint: the accounts of the engine, each one serialized
get_predeployed_accounts ==
    Ok([i \in 1..Len(predeployed_accounts) |->
            SerializableAccount(predeployed_accounts[i])])

\* mutant: a query makes the pending state the committed state
Queried_Synchronized(op, input, result) ==
    /\ response' = result
    /\ last' = Returned(op, input, result.ok,
                        IF result.ok THEN "None" ELSE result.error,
                        0, 0, "None", 0, FALSE)
    /\ committed_state' = pending_state
    /\ UNCHANGED <<pending_state, transactions, pending_block, blocks,
                   accepted, hashed, predeployed_accounts, server>>

\* what a query leaves alone, and its record as the last call
Queried(op, input, result) ==
    /\ response' = result
    /\ last' = Returned(op, input, result.ok,
                        IF result.ok THEN "None" ELSE result.error,
                        0, 0, "None", 0, FALSE)
    /\ UNCHANGED <<pending_state, committed_state, transactions,
                   pending_block, blocks, accepted, hashed,
                   predeployed_accounts, server>>

\* ------------------------------------------------ add_invoke_transcation_v1
\* mutant: the hash depends on the transactions hashed before
invoke_transaction_hash_OfEarlier(tx) ==
    invoke_hash_value(tx, ChainId) + Len(hashed)

\* create_sir_invoke_function(chain_id).hash_value()
invoke_transaction_hash(tx) == invoke_hash_value(tx, ChainId)

\* mutant: the zero-fee precheck is missing
invoke_max_fee_is_zero_Never(tx) == FALSE

invoke_max_fee_is_zero(tx) == tx.max_fee = 0

\* mutant: the pending state is reverted after a successful execution too
invoke_execution_succeeded_Reverted(transaction_hash, transaction_with_type, r, state_before_txn) ==
    /\ handle_successful_transaction(transaction_hash, transaction_with_type, r)
    /\ pending_state' = state_before_txn
    /\ UNCHANGED committed_state

\* mutant: the executor's writes reach the committed state as well
invoke_execution_succeeded_Committed(transaction_hash, transaction_with_type, r, state_before_txn) ==
    /\ handle_successful_transaction(transaction_hash, transaction_with_type, r)
    /\ pending_state' = r.state
    /\ committed_state' = r.state

\* Ok(tx_info) arm: the executor's writes stay in the pending state
invoke_execution_succeeded(transaction_hash, transaction_with_type, r, state_before_txn) ==
    /\ handle_successful_transaction(transaction_hash, transaction_with_type, r)
    /\ pending_state' = r.state
    /\ UNCHANGED committed_state

\* mutant: the pending state is not reverted, the executor's writes stay
invoke_execution_failed_NoRevert(transaction_hash, transaction_with_type, r, state_before_txn) ==
    /\ transactions' = insert(transactions, transaction_hash,
                              create_rejected(transaction_with_type, r.error))
    /\ pending_state' = r.state
    /\ UNCHANGED <<pending_block, committed_state>>

\* mutant: the rejected transaction is not indexed
invoke_execution_failed_NotIndexed(transaction_hash, transaction_with_type, r, state_before_txn) ==
    /\ pending_state' = state_before_txn
    /\ UNCHANGED <<transactions, pending_block, committed_state>>

\* mutant: the rejected transaction joins the pending block
invoke_execution_failed_Appended(transaction_hash, transaction_with_type, r, state_before_txn) ==
    /\ transactions' = insert(transactions, transaction_hash,
                              create_rejected(transaction_with_type, r.error))
    /\ pending_state' = state_before_txn
    /\ pending_block' = Append(pending_block, transaction_hash)
    /\ UNCHANGED committed_state

\* Err(tx_err) arm: index the rejected transaction, revert the pending state
invoke_execution_failed(transaction_hash, transaction_with_type, r, state_before_txn) ==
    /\ transactions' = insert(transactions, transaction_hash,
                              create_rejected(transaction_with_type, r.error))
    /\ pending_state' = state_before_txn
    /\ UNCHANGED <<pending_block, committed_state>>

add_invoke_transcation_v1(tx) ==
    IF invoke_max_fee_is_zero(tx)
    THEN /\ last' = Returned("add_invoke_transaction_v1", tx, FALSE,
                "FeeError: For invoke transaction, max fee cannot be 0",
                0, 0, "None", 0, FALSE)
         /\ UNCHANGED <<pending_state, committed_state, transactions,
                        pending_block, blocks, accepted>>
    ELSE LET transaction_hash == invoke_transaction_hash(tx)
             invoke_transaction ==
                 create_invoke_transaction(tx, transaction_hash)
             transaction_with_type ==
                 TransactionWithType("INVOKE", invoke_transaction)
             state_before_txn == pending_state
             r == sir_invoke_execute(pending_state, tx)
         IN /\ IF r.ok
               THEN /\ invoke_execution_succeeded(transaction_hash,
                            transaction_with_type, r, state_before_txn)
                    /\ Accept(invoke_transaction)
               ELSE /\ invoke_execution_failed(transaction_hash,
                            transaction_with_type, r, state_before_txn)
                    /\ UNCHANGED accepted
            /\ last' = Returned("add_invoke_transaction_v1", tx, TRUE, "None",
                            transaction_hash, 0,
                            IF r.ok THEN "Ok" ELSE r.error, r.actual_fee,
                            ~r.ok /\ r.state # state_before_txn)
            /\ UNCHANGED blocks

\* ------------------------------------------- add_deploy_account_transaction
\* mutant: the zero-fee precheck is missing
deploy_account_max_fee_is_zero_Never(tx) == FALSE

\* mutant: the fee is checked after the class, for a declared class only
deploy_account_max_fee_is_zero_AfterClass(tx) ==
    tx.max_fee = 0 /\ is_contract_declared(pending_state, tx.class_hash)

deploy_account_max_fee_is_zero(tx) == tx.max_fee = 0

\* mutant: the class precheck is missing
deploy_account_class_is_declared_Skipped(tx) == TRUE

deploy_account_class_is_declared(tx) ==
    is_contract_declared(pending_state, tx.class_hash)

\* mutant: the address is derived from the nonce in place of the salt
deploy_account_contract_address_OfNonce(tx) ==
    calculate_contract_address(tx.class_hash, tx.nonce)

\* sir_deploy_account_transaction.contract_address().try_into()?
deploy_account_contract_address(tx) ==
    calculate_contract_address(tx.class_hash, tx.contract_address_salt)

\* compile_sir_deploy_account(chain_id).hash_value()
deploy_account_transaction_hash(tx) == deploy_account_hash_value(tx, ChainId)

\* mutant: the pending state is reverted after a successful execution too
deploy_account_execution_succeeded_Reverted(transaction_hash, transaction_with_type, r, state_before_txn) ==
    /\ handle_successful_transaction(transaction_hash, transaction_with_type, r)
    /\ pending_state' = state_before_txn
    /\ UNCHANGED committed_state

\* Ok(tx_info) arm: the executor's writes stay in the pending state
deploy_account_execution_succeeded(transaction_hash, transaction_with_type, r, state_before_txn) ==
    /\ handle_successful_transaction(transaction_hash, transaction_with_type, r)
    /\ pending_state' = r.state
    /\ UNCHANGED committed_state

deploy_account_execution_failed(transaction_hash, transaction_with_type, r, state_before_txn) ==
    /\ transactions' = insert(transactions, transaction_hash,
                              create_rejected(transaction_with_type, r.error))
    /\ pending_state' = state_before_txn
    /\ UNCHANGED <<pending_block, committed_state>>

add_deploy_account_transaction(tx) ==
    IF deploy_account_max_fee_is_zero(tx)
    THEN /\ last' = Returned("add_deploy_account_transaction", tx, FALSE,
                "FeeError: For deploy account transaction, max fee cannot be 0",
                0, 0, "None", 0, FALSE)
         /\ UNCHANGED <<pending_state, committed_state, transactions,
                        pending_block, blocks, accepted>>
    ELSE IF ~deploy_account_class_is_declared(tx)
    THEN /\ last' = Returned("add_deploy_account_transaction", tx, FALSE,
                "StateError: MissingClassHash", 0, 0, "None", 0, FALSE)
         /\ UNCHANGED <<pending_state, committed_state, transactions,
                        pending_block, blocks, accepted>>
    ELSE LET transaction_hash == deploy_account_transaction_hash(tx)
             deploy_account_transaction ==
                 compile_deploy_account_transaction(tx, transaction_hash)
             address == deploy_account_contract_address(tx)
             transaction_with_type ==
                 TransactionWithType("DEPLOY_ACCOUNT", deploy_account_transaction)
             state_before_txn == pending_state
             r == sir_deploy_account_execute(pending_state, tx)
         IN /\ IF r.ok
               THEN /\ deploy_account_execution_succeeded(transaction_hash,
                            transaction_with_type, r, state_before_txn)
                    /\ Accept(deploy_account_transaction)
               ELSE /\ deploy_account_execution_failed(transaction_hash,
                            transaction_with_type, r, state_before_txn)
                    /\ UNCHANGED accepted
            /\ last' = Returned("add_deploy_account_transaction", tx, TRUE,
                            "None", transaction_hash, address,
                            IF r.ok THEN "Ok" ELSE r.error, r.actual_fee,
                            ~r.ok /\ r.state # state_before_txn)
            /\ UNCHANGED blocks

\* --------------------------------------------------- add_declare_transaction
\* the same pipeline for a Declare: fee precheck, execution under snapshot
add_declare_transaction(tx) ==
    IF tx.max_fee = 0
    THEN /\ last' = Returned("add_declare_transaction", tx, FALSE,
                "FeeError: For declare transaction, max fee cannot be 0",
                0, 0, "None", 0, FALSE)
         /\ UNCHANGED <<pending_state, committed_state, transactions,
                        pending_block, blocks, accepted>>
    ELSE LET transaction_hash == declare_hash_value(tx, ChainId)
             declare_transaction == compile_declare(tx, transaction_hash)
             transaction_with_type ==
                 TransactionWithType("DECLARE", declare_transaction)
             state_before_txn == pending_state
             r == sir_declare_execute(pending_state, tx)
         IN /\ IF r.ok
               THEN /\ handle_successful_transaction(transaction_hash,
                            transaction_with_type, r)
                    /\ pending_state' = r.state
                    /\ Accept(declare_transaction)
               ELSE /\ transactions' = insert(transactions, transaction_hash,
                            create_rejected(transaction_with_type, r.error))
                    /\ pending_state' = state_before_txn
                    /\ UNCHANGED <<pending_block, accepted>>
            /\ last' = Returned("add_declare_transaction", tx, TRUE, "None",
                            transaction_hash, 0,
                            IF r.ok THEN "Ok" ELSE r.error, r.actual_fee,
                            ~r.ok /\ r.state # state_before_txn)
            /\ UNCHANGED <<committed_state, blocks>>

\* -------------------------------------------------------------------- seal
\* BlockBuilder::seal: stamp the block's transactions, synchronize the
\* committed state with the pending state, store the snapshot, restart the
\* pending block
seal ==
    /\ Len(blocks) < MaxBlocks
    /\ LET block_number == Len(blocks) + 1
       IN /\ transactions' = [h \in DOMAIN transactions |->
                IF \E i \in 1..Len(pending_block) : pending_block[i] = h
                THEN [transactions[h] EXCEPT !.block_number = block_number]
                ELSE transactions[h]]
          /\ blocks' = Append(blocks,
                [block_number |-> block_number,
                 transactions |-> pending_block,
                 state |-> pending_state])
    /\ committed_state' = pending_state
    /\ pending_block' = <<>>
    /\ last' = Returned("seal", NoInput, TRUE, "None", 0, 0, "None", 0, FALSE)
    /\ UNCHANGED <<pending_state, accepted>>

\* ----------------------------------------------------------- specification
Init ==
    /\ pending_state = SetupState(FundedAddresses)
    /\ committed_state = SetupState(FundedAddresses)
    /\ transactions = <<>>
    /\ pending_block = <<>>
    /\ blocks = <<>>
    /\ accepted = [a \in Addresses |-> <<>>]
    /\ last = Returned("new", NoInput, TRUE, "None", 0, 0, "None", 0, FALSE)
    /\ hashed = <<>>
    /\ predeployed_accounts = PredeployedAccounts
    /\ response = NoResponse
    /\ lock = Unlocked
    /\ requests = [request \in Requests |-> NoRequest]
    /\ acquired = <<>>
    /\ observed = [reader \in Readers |-> NoView]

\* bound of the model: a broadcast transaction is submitted while the index
\* has room for its hash, that is, the hash is indexed already or the index
\* holds fewer than MaxTransactions hashes
HasRoom(transaction_hash) ==
    \/ transaction_hash \in DOMAIN transactions
    \/ Cardinality(DOMAIN transactions) < MaxTransactions

AddInvoke ==
    \E tx \in BroadcastedInvokeTransactionV1 :
        /\ HasRoom(invoke_hash_value(tx, ChainId))
        /\ add_invoke_transcation_v1(tx)
        /\ response' = NoResponse
        /\ UNCHANGED <<hashed, predeployed_accounts, server>>

AddDeployAccount ==
    \E tx \in BroadcastedDeployAccountTransaction :
        /\ HasRoom(deploy_account_hash_value(tx, ChainId))
        /\ add_deploy_account_transaction(tx)
        /\ response' = NoResponse
        /\ UNCHANGED <<hashed, predeployed_accounts, server>>

AddDeclare ==
    \E tx \in BroadcastedDeclareTransaction :
        /\ HasRoom(declare_hash_value(tx, ChainId))
        /\ add_declare_transaction(tx)
        /\ response' = NoResponse
        /\ UNCHANGED <<hashed, predeployed_accounts, server>>

Seal ==
    /\ seal
    /\ response' = NoResponse
    /\ UNCHANGED <<hashed, predeployed_accounts, server>>

Next == AddInvoke \/ AddDeployAccount \/ AddDeclare \/ Seal

Spec == Init /\ [][Next]_vars

\* ------------------------------------------- failure after the execution
\* handle_successful_transaction(..)? returns Err: the handler returns the
\* error at once; the Ok arm holds no restore, so the executor's writes
\* stay in the pending state. The bookkeeping is taken to fail before it
\* wrote anything.
handle_successful_transaction_failed(r, state_before_txn) ==
    /\ pending_state' = r.state
    /\ UNCHANGED <<committed_state, transactions, pending_block, blocks,
                   accepted>>

AddInvokeBookkeepingFails ==
    \E tx \in BroadcastedInvokeTransactionV1 :
        LET state_before_txn == pending_state
            r == sir_invoke_execute(pending_state, tx)
        IN /\ HasRoom(invoke_hash_value(tx, ChainId))
           /\ ~invoke_max_fee_is_zero(tx)
           /\ r.ok
           /\ handle_successful_transaction_failed(r, state_before_txn)
           /\ last' = Returned("add_invoke_transaction_v1", tx, FALSE,
                           "handle_successful_transaction", 0, 0, "Ok",
                           r.actual_fee, FALSE)
           /\ response' = NoResponse
           /\ UNCHANGED <<hashed, predeployed_accounts, server>>

AddDeployAccountBookkeepingFails ==
    \E tx \in BroadcastedDeployAccountTransaction :
        LET state_before_txn == pending_state
            r == sir_deploy_account_execute(pending_state, tx)
        IN /\ HasRoom(deploy_account_hash_value(tx, ChainId))
           /\ ~deploy_account_max_fee_is_zero(tx)
           /\ deploy_account_class_is_declared(tx)
           /\ r.ok
           /\ handle_successful_transaction_failed(r, state_before_txn)
           /\ last' = Returned("add_deploy_account_transaction", tx, FALSE,
                           "handle_successful_transaction", 0, 0, "Ok",
                           r.actual_fee, FALSE)
           /\ response' = NoResponse
           /\ UNCHANGED <<hashed, predeployed_accounts, server>>

\* the engine when handle_successful_transaction may return an error
FallibleNext ==
    \/ AddInvoke
    \/ AddDeployAccount
    \/ AddDeclare
    \/ Seal
    \/ AddInvokeBookkeepingFails
    \/ AddDeployAccountBookkeepingFails

FallibleSpec == Init /\ [][FallibleNext]_vars

\* ------------------------------------------------------------------ server
\* The server holds the engine in a read-write lock. An add request waits
\* for the write lock and then runs its handler, a synchronous function with
\* no suspension point: first the prechecks, the snapshot and the executor,
\* then the bookkeeping of the Ok arm or the restore of the Err arm. A read
\* endpoint reads the engine under the read lock.
engine == <<pending_state, committed_state, transactions, pending_block,
            blocks, accepted, last, hashed, predeployed_accounts, response>>

\* mutant: the write lock is granted whoever holds the lock
write_lock_is_free_Shared == TRUE

\* RwLock::write: granted when neither a writer nor a reader holds the lock
write_lock_is_free == lock.writers = {} /\ lock.readers = {}

\* mutant: the read lock is granted while a writer holds the lock
read_lock_is_free_Unlocked == TRUE

\* RwLock::read: granted when no writer holds the lock
read_lock_is_free == lock.writers = {}

\* the add requests a client sends
RequestFees == Fees \cup {3}

AddRequests ==
    [kind : {"invoke"},
     tx : [sender_address : Senders, max_fee : RequestFees, nonce : Nonces,
           calldata : Params]]
        \cup [kind : {"deploy_account"},
              tx : [class_hash : ClassHashes, contract_address_salt : Salts,
                    max_fee : RequestFees, nonce : Nonces]]

\* the handler's prechecks fail: it returns an error before the snapshot
prechecks_failed(req) ==
    IF req.kind = "invoke"
    THEN invoke_max_fee_is_zero(req.tx)
    ELSE deploy_account_max_fee_is_zero(req.tx)
             \/ ~deploy_account_class_is_declared(req.tx)

\* the handler's hash of the request's transaction
request_transaction_hash(req) ==
    IF req.kind = "invoke"
    THEN invoke_transaction_hash(req.tx)
    ELSE deploy_account_transaction_hash(req.tx)

\* the handler's compiled transaction, with its type
request_transaction(req) ==
    IF req.kind = "invoke"
    THEN create_invoke_transaction(req.tx, request_transaction_hash(req))
    ELSE compile_deploy_account_transaction(req.tx, request_transaction_hash(req))

request_transaction_with_type(req) ==
    TransactionWithType(IF req.kind = "invoke" THEN "INVOKE" ELSE "DEPLOY_ACCOUNT",
                        request_transaction(req))

\* transaction.execute(&mut starknet.state.pending_state, ..)
request_execute(req, state) ==
    IF req.kind = "invoke"
    THEN sir_invoke_execute(state, req.tx)
    ELSE sir_deploy_account_execute(state, req.tx)

request_op(req) ==
    IF req.kind = "invoke"
    THEN "add_invoke_transaction_v1"
    ELSE "add_deploy_account_transaction"

\* the guard drops: the lock is released when the handler has returned
release_write(request) ==
    lock' = [lock EXCEPT !.writers = @ \ {request}]

\* a client sends an add request; the request waits for the write lock
Submit ==
    \E request \in Requests, add \in AddRequests :
        /\ requests[request].phase = "idle"
        /\ \A earlier \in Requests :
               earlier < request => requests[earlier].phase # "idle"
        /\ requests' = [requests EXCEPT ![request] =
               Request("waiting", add.kind, add.tx, TRUE, NoSnapshot)]
        /\ UNCHANGED <<engine, lock, acquired, observed>>

\* starknet.write().await returns the guard
AcquireWrite ==
    \E request \in Requests :
        /\ requests[request].phase = "waiting"
        /\ write_lock_is_free
        /\ lock' = [lock EXCEPT !.writers = @ \cup {request}]
        /\ acquired' = Append(acquired, request)
        /\ requests' = [requests EXCEPT ![request].phase = "locked"]
        /\ UNCHANGED <<engine, observed>>

\* the handler up to the executor's return: a failed precheck returns the
\* error; otherwise the pending state is cloned and the executor writes to
\* the pending state
Execute ==
    \E request \in Requests :
        LET req == requests[request]
            r == request_execute(req, pending_state)
        IN /\ req.phase = "locked"
           /\ IF prechecks_failed(req)
              THEN /\ IF req.kind = "invoke"
                      THEN add_invoke_transcation_v1(req.tx)
                      ELSE add_deploy_account_transaction(req.tx)
                   /\ release_write(request)
                   /\ requests' = [requests EXCEPT ![request].phase = "returned"]
              ELSE /\ pending_state' = r.state
                   /\ requests' = [requests EXCEPT ![request] =
                          Request("executed", req.kind, req.tx, req.connected,
                                  pending_state)]
                   /\ UNCHANGED <<committed_state, transactions, pending_block,
                                  blocks, accepted, last, lock>>
           /\ UNCHANGED <<hashed, predeployed_accounts, response, acquired,
                          observed>>

\* the match on the executor's result: the Ok arm indexes the transaction
\* and appends its hash to the pending block, the Err arm indexes it as
\* rejected and puts the snapshot back; then the handler returns
Finish ==
    \E request \in Requests :
        LET req == requests[request]
            state_before_txn == req.state_before_txn
            r == request_execute(req, state_before_txn)
            transaction_hash == request_transaction_hash(req)
            transaction_with_type == request_transaction_with_type(req)
        IN /\ req.phase = "executed"
           /\ IF r.ok
              THEN /\ handle_successful_transaction(transaction_hash,
                           transaction_with_type, r)
                   /\ Accept(request_transaction(req))
                   /\ UNCHANGED <<pending_state, committed_state>>
              ELSE /\ IF req.kind = "invoke"
                      THEN invoke_execution_failed(transaction_hash,
                               transaction_with_type, r, state_before_txn)
                      ELSE deploy_account_execution_failed(transaction_hash,
                               transaction_with_type, r, state_before_txn)
                   /\ UNCHANGED accepted
           /\ last' = Returned(request_op(req), req.tx, TRUE, "None",
                           transaction_hash,
                           IF req.kind = "invoke" THEN 0
                           ELSE deploy_account_contract_address(req.tx),
                           IF r.ok THEN "Ok" ELSE r.error, r.actual_fee,
                           ~r.ok /\ r.state # state_before_txn)
           /\ release_write(request)
           /\ requests' = [requests EXCEPT ![request].phase = "returned"]
           /\ UNCHANGED <<blocks, hashed, predeployed_accounts, response,
                          acquired, observed>>

\* the Ok arm when handle_successful_transaction(..)? returns Err: the
\* handler returns the error, the executor's writes stay
FinishBookkeepingFails ==
    \E request \in Requests :
        LET req == requests[request]
            r == request_execute(req, req.state_before_txn)
        IN /\ req.phase = "executed"
           /\ r.ok
           /\ last' = Returned(request_op(req), req.tx, FALSE,
                           "handle_successful_transaction", 0, 0, "Ok",
                           r.actual_fee, FALSE)
           /\ release_write(request)
           /\ requests' = [requests EXCEPT ![request].phase = "returned"]
           /\ UNCHANGED <<pending_state, committed_state, transactions,
                          pending_block, blocks, accepted, hashed,
                          predeployed_accounts, response, acquired, observed>>

\* the caller of a running handler goes away; the handler has no suspension
\* point at which it could be dropped
Disconnect ==
    \E request \in Requests :
        /\ requests[request].phase \in {"locked", "executed"}
        /\ requests[request].connected
        /\ requests' = [requests EXCEPT ![request].connected = FALSE]
        /\ UNCHANGED <<engine, lock, acquired, observed>>

\* what a reader can read of the engine
View(state, index, block) ==
    [pending_state |-> state, transactions |-> index, pending_block |-> block]

\* state.api.starknet.read().await, then the endpoint reads
AcquireRead ==
    \E reader \in Readers :
        /\ reader \notin lock.readers
        /\ read_lock_is_free
        /\ lock' = [lock EXCEPT !.readers = @ \cup {reader}]
        /\ observed' = [observed EXCEPT ![reader] =
               View(pending_state, transactions, pending_block)]
        /\ UNCHANGED <<engine, requests, acquired>>

\* the endpoint returns and its guard drops
ReleaseRead ==
    \E reader \in Readers :
        /\ reader \in lock.readers
        /\ lock' = [lock EXCEPT !.readers = @ \ {reader}]
        /\ observed' = [observed EXCEPT ![reader] = NoView]
        /\ UNCHANGED <<engine, requests, acquired>>

ConcurrentNext ==
    \/ Submit
    \/ AcquireWrite
    \/ Execute
    \/ Finish
    \/ Disconnect
    \/ AcquireRead
    \/ ReleaseRead

ConcurrentSpec == Init /\ [][ConcurrentNext]_vars

\* the server when handle_successful_transaction may return an error; a
\* handler that holds the lock runs on to its return
FallibleConcurrentNext == ConcurrentNext \/ FinishBookkeepingFails

FallibleConcurrentSpec ==
    /\ Init
    /\ [][FallibleConcurrentNext]_vars
    /\ WF_vars(Execute)
    /\ WF_vars(Finish \/ FinishBookkeepingFails)

\* ------------------------------------------------------ transaction hashes
\* the hashing step of the two handlers applied to broadcast bodies that
\* pass the prechecks, each body with its signature
SignedInvokeTransactions ==
    [sender_address : Senders, max_fee : Fees, nonce : Nonces,
     calldata : Params, signature : Signatures]

SignedDeployAccountTransactions ==
    [class_hash : ClassHashes, contract_address_salt : Salts,
     max_fee : Fees, nonce : Nonces, signature : Signatures]

Hashed(tx, transaction_hash) ==
    hashed' = Append(hashed, [body |-> tx, transaction_hash |-> transaction_hash])

HashInvoke ==
    \E tx \in SignedInvokeTransactions :
        /\ Len(hashed) < MaxHashed
        /\ ~invoke_max_fee_is_zero(tx)
        /\ Hashed(tx, invoke_transaction_hash(tx))
        /\ UNCHANGED <<pending_state, committed_state, transactions,
                       pending_block, blocks, accepted, last,
                       predeployed_accounts, response, server>>

HashDeployAccount ==
    \E tx \in SignedDeployAccountTransactions :
        /\ Len(hashed) < MaxHashed
        /\ ~deploy_account_max_fee_is_zero(tx)
        /\ deploy_account_class_is_declared(tx)
        /\ Hashed(tx, deploy_account_transaction_hash(tx))
        /\ UNCHANGED <<pending_state, committed_state, transactions,
                       pending_block, blocks, accepted, last,
                       predeployed_accounts, response, server>>

\* ------------------------------------------------------------------ queries
\* addresses and class hashes the class queries are asked about
QueryAddresses == DerivedAddresses

GetClassHashAt ==
    \E block_id \in BlockIds, contract_address \in QueryAddresses :
        Queried("get_class_hash_at",
                [block_id |-> block_id, contract_address |-> contract_address],
                get_class_hash_at_impl(block_id, contract_address))

GetClass ==
    \E block_id \in BlockIds, class_hash \in ClassHashes :
        Queried("get_class",
                [block_id |-> block_id, class_hash |-> class_hash],
                get_class_impl(block_id, class_hash))

GetClassAt ==
    \E block_id \in BlockIds, contract_address \in QueryAddresses :
        Queried("get_class_at",
                [block_id |-> block_id, contract_address |-> contract_address],
                get_class_at_impl(block_id, contract_address))

GetPredeployedAccounts ==
    Queried("get_predeployed_accounts", NoInput, get_predeployed_accounts)

QueryNext ==
    \/ AddDeployAccount
    \/ AddDeclare
    \/ Seal
    \/ GetClassHashAt
    \/ GetClass
    \/ GetClassAt
    \/ GetPredeployedAccounts

QuerySpec == Init /\ [][QueryNext]_vars

HashNext == HashInvoke \/ HashDeployAccount

HashSpec == Init /\ [][HashNext]_vars

\* ------------------------------------------------------------------ claims
AddOps == {"add_invoke_transaction_v1", "add_deploy_account_transaction"}

\* the executor ran in the call and returned an error
ExecutorFailed(call) == call.op \in AddOps /\ call.exec \notin {"None", "Ok"}

\* the executor ran in the call and returned Ok
ExecutorSucceeded(call) == call.op \in AddOps /\ call.exec = "Ok"

\* the hash the pipeline derives for the call's input
HashOfInput(call) ==
    IF call.op = "add_invoke_transaction_v1"
    THEN invoke_hash_value(call.input, ChainId)
    ELSE deploy_account_hash_value(call.input, ChainId)

\* the account the call's transaction is sent from
SenderOf(call) ==
    IF call.op = "add_invoke_transaction_v1"
    THEN call.input.sender_address
    ELSE calculate_contract_address(call.input.class_hash,
                                    call.input.contract_address_salt)

\* C1: atomicity of rejection. A step of add_invoke_transaction_v1 or
\* add_deploy_account_transaction whose executor returned an error leaves
\* the pending state equal to the pending state before the call and the
\* committed state untouched, whatever the executor wrote before failing.
C1_RejectionIsAtomic ==
    [][ExecutorFailed(last')
        => /\ pending_state' = pending_state
           /\ committed_state' = committed_state]_vars

\* a rejected invoke whose executor had written to the pending state
C1_Witness ==
    /\ last.op = "add_invoke_transaction_v1"
    /\ ExecutorFailed(last)
    /\ last.partial_writes

\* C2: when the prechecks pass and the executor fails, the call returns Ok
\* with the transaction hash (and the derived address for deploy-account),
\* and the index holds an entry under that hash with status Rejected and
\* the executor's error as execution_error.
C2_RejectedIsIndexed ==
    ExecutorFailed(last)
    => /\ last.ok
       /\ last.hash = HashOfInput(last)
       /\ last.op = "add_deploy_account_transaction"
            => last.address =
                 calculate_contract_address(last.input.class_hash,
                                            last.input.contract_address_salt)
       /\ last.hash \in DOMAIN transactions
       /\ transactions[last.hash].status = "Rejected"
       /\ transactions[last.hash].execution_error = last.exec

\* a deploy-account admitted and rejected for its balance (scenario S2)
C2_Witness ==
    /\ last.op = "add_deploy_account_transaction"
    /\ last.exec = "InsufficientBalance"
    /\ last.ok

\* C3: add_invoke_transaction_v1 with max_fee = 0 returns the fee error in
\* every state and for every other field value; the index, the pending
\* block and the world state are unchanged.
C3_InvokeFeeZero ==
    [][(last'.op = "add_invoke_transaction_v1" /\ last'.input.max_fee = 0)
        => /\ ~last'.ok
           /\ last'.error =
                "FeeError: For invoke transaction, max fee cannot be 0"
           /\ UNCHANGED <<transactions, pending_block, blocks,
                          pending_state, committed_state>>]_vars

\* a zero-fee invoke refused in a state that already holds transactions
C3_Witness ==
    /\ last.op = "add_invoke_transaction_v1"
    /\ last.input.max_fee = 0
    /\ ~last.ok
    /\ DOMAIN transactions # {}
    /\ pending_block # <<>>

\* C4: add_deploy_account_transaction with max_fee = 0 returns the fee
\* error in every state; no transaction is indexed and the world state is
\* unchanged.
C4_DeployAccountFeeZero ==
    [][(last'.op = "add_deploy_account_transaction"
            /\ last'.input.max_fee = 0)
        => /\ ~last'.ok
           /\ last'.error =
                "FeeError: For deploy account transaction, max fee cannot be 0"
           /\ UNCHANGED <<transactions, pending_block, blocks,
                          pending_state, committed_state>>]_vars

\* a zero-fee deploy-account of a declared class, refused in a state that
\* already holds transactions
C4_Witness ==
    /\ last.op = "add_deploy_account_transaction"
    /\ last.input.max_fee = 0
    /\ is_contract_declared(pending_state, last.input.class_hash)
    /\ ~last.ok
    /\ DOMAIN transactions # {}

\* C5: add_deploy_account_transaction with non-zero max_fee passes the
\* class precheck exactly when its class_hash is declared in the pending
\* state: an undeclared class fails with MissingClassHash and changes
\* neither the index nor the state; a class declared in pending, even if
\* not in committed, is not refused.
C5_ClassPrecheck ==
    [][(last'.op = "add_deploy_account_transaction"
            /\ last'.input.max_fee # 0)
        => IF is_contract_declared(pending_state, last'.input.class_hash)
           THEN /\ last'.ok
                /\ last'.error = "None"
           ELSE /\ ~last'.ok
                /\ last'.error = "StateError: MissingClassHash"
                /\ UNCHANGED <<transactions, pending_block, blocks,
                               pending_state, committed_state>>]_vars

\* a deploy-account admitted for a class declared in pending only
C5_Witness ==
    /\ last.op = "add_deploy_account_transaction"
    /\ last.ok
    /\ is_contract_declared(pending_state, last.input.class_hash)
    /\ ~is_contract_declared(committed_state, last.input.class_hash)

C7_RejectedNotInBlock ==
    [][ExecutorFailed(last')
        => UNCHANGED <<pending_block, blocks>>]_vars

\* a rejection while the pending block holds an accepted transaction
C7_Witness ==
    /\ ExecutorFailed(last)
    /\ last.hash \in DOMAIN transactions
    /\ pending_block # <<>>
    /\ \A i \in 1..Len(pending_block) : pending_block[i] # last.hash

RECURSIVE NoncesOf(_, _)
NoncesOf(history, variants) ==
    IF history = <<>> THEN <<>>
    ELSE IF Head(history).variant \in variants
    THEN <<Head(history).nonce>> \o NoncesOf(Tail(history), variants)
    ELSE NoncesOf(Tail(history), variants)

\* the sequence is 0, 1, 2, ...
CountsFromZero(nonces) == \A i \in 1..Len(nonces) : nonces[i] = i - 1

C10_ReplayIsRejected ==
    [][(/\ last'.op = "add_invoke_transaction_v1"
        /\ invoke_hash_value(last'.input, ChainId) \in DOMAIN transactions
        /\ transactions[invoke_hash_value(last'.input, ChainId)].status =
             "AcceptedOnL2")
        => /\ last'.ok
           /\ last'.hash = invoke_hash_value(last'.input, ChainId)
           /\ transactions'[last'.hash].status = "Rejected"
           /\ transactions'[last'.hash].execution_error = "InvalidNonce"
           /\ pending_state' = pending_state
           /\ committed_state' = committed_state]_vars

\* a replay recorded as Rejected, its hash still listed in the pending
\* block from the first, accepted, submission
C10_Witness ==
    /\ last.op = "add_invoke_transaction_v1"
    /\ last.exec = "InvalidNonce"
    /\ last.partial_writes
    /\ \E i \in 1..Len(pending_block) : pending_block[i] = last.hash
    /\ transactions[last.hash].status = "Rejected"

\* C11: uniqueness of indexed hashes. No step of add_invoke_transaction_v1
\* or add_deploy_account_transaction replaces an entry the index already
\* holds under a hash with a different entry.
C11_Original ==
    [][last'.op \in AddOps
        => \A h \in DOMAIN transactions :
              h \in DOMAIN transactions' /\ transactions'[h] = transactions[h]]_vars

\* the fields of a broadcast body other than its signature
Unsigned(body) == [f \in DOMAIN body \ {"signature"} |-> body[f]]

balance(state, address) == state.fee_token_balance[address]

\* C13: fee observability. After an accepted invoke from account A whose
\* recorded actual_fee, the actual_fee of its receipt, is F, the fee-token
\* balance of A in the pending state is exactly F lower than before the
\* call; a rejected invoke leaves the balance unchanged.
C13_Original ==
    [][(last'.op = "add_invoke_transaction_v1" /\ last'.ok)
        => LET A == last'.input.sender_address
               F == get_receipt(transactions', last'.hash).output.actual_fee
           IN IF last'.exec = "Ok"
              THEN balance(pending_state', A) = balance(pending_state, A) - F
              ELSE balance(pending_state', A) = balance(pending_state, A)]_vars

\* the same with F the actual fee the executor returned for the invoke
C13_ExecutorFee ==
    [][(last'.op = "add_invoke_transaction_v1" /\ last'.ok)
        => LET A == last'.input.sender_address
           IN IF last'.exec = "Ok"
              THEN balance(pending_state', A) =
                     balance(pending_state, A) - last'.actual_fee
              ELSE balance(pending_state', A) = balance(pending_state, A)]_vars

\* C14: the actual_fee reported for an accepted transaction in the receipt
\* create_common_receipt builds equals the actual fee the executor charged
\* for that transaction, and its messages_sent are the executor's.
C14_Original ==
    ExecutorSucceeded(last)
    => get_receipt(transactions, last.hash).output.actual_fee = last.actual_fee

\* get_accounts_count: the number of entries of address -> class_hash
get_accounts_count(state) ==
    Cardinality({a \in Addresses : is_contract_deployed(state, a)})

C16_ReturnedAddressIsDerived ==
    [][(last'.op = "add_deploy_account_transaction" /\ last'.ok)
        => /\ last'.address =
                calculate_contract_address(last'.input.class_hash,
                                           last'.input.contract_address_salt)
           /\ last'.exec = "Ok"
                => {a \in Addresses : /\ is_contract_deployed(pending_state', a)
                                      /\ ~is_contract_deployed(pending_state, a)}
                     = {last'.address}]_vars

\* a rejected deploy-account that returns the address an earlier, accepted,
\* deploy-account of the same class and salt returned and deployed
C16_Witness ==
    /\ last.op = "add_deploy_account_transaction"
    /\ last.exec = "AddressOccupied"
    /\ is_contract_deployed(pending_state, last.address)
    /\ pending_state.address_to_class_hash[last.address] = last.input.class_hash
    /\ accepted[last.address] # <<>>
    /\ Head(accepted[last.address]).variant = "DeployAccount"

\* C17: get_class_at(block, addr) is get_class(block, h) for the class
\* hash h that get_class_hash_at(block, addr) returns on the same block
\* id: when get_class_hash_at fails, its error is the result; otherwise
\* the result, value or error, is that of get_class.
C17_GetClassAtIsComposition ==
    last.op = "get_class_at"
    => LET block_id == last.input.block_id
           class_hash ==
               get_class_hash_at_impl(block_id, last.input.contract_address)
       IN IF class_hash.ok
          THEN response = get_class_impl(block_id, class_hash.value)
          ELSE response = class_hash

\* get_class_at at Latest of an address deployed in the pending state
\* only: the failure of get_class_hash_at at Latest is the result
C17_Witness ==
    /\ last.op = "get_class_at"
    /\ last.input.block_id.tag = "Latest"
    /\ is_contract_deployed(pending_state, last.input.contract_address)
    /\ ~is_contract_deployed(committed_state, last.input.contract_address)
    /\ response = Err("ContractNotFound")

\* C18: get_class_hash_at(block, addr) returns the class hash mapped to
\* addr in the state the block id selects, and fails with ContractNotFound
\* when addr is not mapped there; it returns no zero class hash.
C18_GetClassHashAt ==
    last.op = "get_class_hash_at"
    => LET state_reader == get_state_reader_at_mut(last.input.block_id)
           contract_address == last.input.contract_address
       IN /\ state_reader.ok
               => IF is_contract_deployed(state_reader.value, contract_address)
                  THEN response =
                         Ok(state_reader.value.address_to_class_hash[contract_address])
                  ELSE response = Err("ContractNotFound")
          /\ response.ok => response.value # 0

\* the class hash of an account read at Latest after the seal that
\* followed its deployment
C18_Witness ==
    /\ last.op = "get_class_hash_at"
    /\ last.input.block_id.tag = "Latest"
    /\ blocks # <<>>
    /\ response = Ok(AccountClassHash)

\* the result a class query has on a given state
ReadFrom(state_reader, call) ==
    CASE call.op = "get_class_hash_at" ->
            state_reader_get_class_hash_at(state_reader, call.input.contract_address)
      [] call.op = "get_class" ->
            state_reader_get_contract_class(state_reader, call.input.class_hash)
      [] call.op = "get_class_at" ->
            LET class_hash ==
                    state_reader_get_class_hash_at(state_reader,
                                                   call.input.contract_address)
            IN IF class_hash.ok
               THEN state_reader_get_contract_class(state_reader, class_hash.value)
               ELSE class_hash

C20_PredeployedAccountsAreStatic ==
    last.op = "get_predeployed_accounts"
    => /\ last.ok
       /\ response.ok
       /\ Len(response.value) = Len(PredeployedAccounts)
       /\ \A i \in 1..Len(PredeployedAccounts) :
             response.value[i] =
               [initial_balance |->
                    to_decimal_string(PredeployedAccounts[i].initial_balance),
                address |->
                    ContractAddressHex(PredeployedAccounts[i].account_address),
                public_key |-> FeltHex(PredeployedAccounts[i].public_key),
                private_key |-> FeltHex(PredeployedAccounts[i].private_key)]

\* the list asked for after the predeployed account paid a fee, a
\* transaction was rejected and a block was sealed
C20_Witness ==
    /\ last.op = "get_predeployed_accounts"
    /\ balance(pending_state, PredeployedAddress) < InitialBalance
    /\ blocks # <<>>
    /\ \E h \in DOMAIN transactions : transactions[h].status = "Rejected"

\* C23: in add_deploy_account_transaction the zero-fee check comes before
\* the class check: a deploy-account with max_fee 0 and a class_hash that
\* is not declared fails with the fee error, not with MissingClassHash.
C23_FeeCheckBeforeClassCheck ==
    (/\ last.op = "add_deploy_account_transaction"
     /\ last.input.max_fee = 0
     /\ ~is_contract_declared(pending_state, last.input.class_hash))
    => /\ ~last.ok
       /\ last.error =
            "FeeError: For deploy account transaction, max fee cannot be 0"

\* a zero-fee deploy-account of an undeclared class, refused
C23_Witness ==
    /\ last.op = "add_deploy_account_transaction"
    /\ last.input.max_fee = 0
    /\ ~is_contract_declared(pending_state, last.input.class_hash)
    /\ ~last.ok
    /\ last.exec = "None"

\* C25: status stability. Once a hash is indexed with status AcceptedOnL2,
\* no later add operation, the resubmission of the same transaction
\* included, changes the status stored under that hash to Rejected.
C25_Original ==
    [][\A h \in DOMAIN transactions :
          transactions[h].status = "AcceptedOnL2"
              => transactions'[h].status # "Rejected"]_vars

\* C26: every transaction hash listed in the pending block or in a sealed
\* block is in the index with status AcceptedOnL2.
C26_Original ==
    /\ \A i \in 1..Len(pending_block) :
          /\ pending_block[i] \in DOMAIN transactions
          /\ transactions[pending_block[i]].status = "AcceptedOnL2"
    /\ \A n \in 1..Len(blocks) : \A i \in 1..Len(blocks[n].transactions) :
          /\ blocks[n].transactions[i] \in DOMAIN transactions
          /\ transactions[blocks[n].transactions[i]].status = "AcceptedOnL2"

\* C27: each entry of the index is keyed by its own hash and tagged with
\* its own kind: under every key h the stored transaction's
\* get_transaction_hash() is h and the type tag is the get_type() of the
\* stored transaction.
C27_KeyedByOwnHashAndKind ==
    \A h \in DOMAIN transactions :
        LET stored == TransactionWithType(transactions[h].type,
                                          transactions[h].transaction)
        IN /\ get_transaction_hash(stored) = h
           /\ transactions[h].type = get_type(transactions[h].transaction)

\* an index that holds an invoke and a deploy-account, one accepted and
\* one rejected
C27_Witness ==
    \E h1, h2 \in DOMAIN transactions :
        /\ transactions[h1].transaction.variant = "Invoke"
        /\ transactions[h2].transaction.variant = "DeployAccount"
        /\ transactions[h1].status # transactions[h2].status

ClassQueries == {"get_class_hash_at", "get_class", "get_class_at"}

C24_Original ==
    [][(last'.op \in AddOps /\ ~last'.ok)
        => UNCHANGED <<pending_state, transactions, pending_block>>]_vars

\* the whole handler as a function of what it reads and writes: the view
\* after add_invoke_transcation_v1 or add_deploy_account_transaction has
\* run alone on the view
add_transaction(view, req) ==
    LET state == view.pending_state
        failed ==
            IF req.kind = "invoke"
            THEN invoke_max_fee_is_zero(req.tx)
            ELSE deploy_account_max_fee_is_zero(req.tx)
                     \/ ~is_contract_declared(state, req.tx.class_hash)
        transaction_hash == request_transaction_hash(req)
        transaction_with_type == request_transaction_with_type(req)
        r == request_execute(req, state)
    IN IF failed THEN view
       ELSE IF r.ok
       THEN View(r.state,
                 insert(view.transactions, transaction_hash,
                        create_successful(transaction_with_type, r)),
                 Append(view.pending_block, transaction_hash))
       ELSE View(state,
                 insert(view.transactions, transaction_hash,
                        create_rejected(transaction_with_type, r.error)),
                 view.pending_block)

\* the add operations run one after another, in the order of the sequence
RECURSIVE sequential(_, _)
sequential(view, reqs) ==
    IF reqs = <<>> THEN view
    ELSE sequential(add_transaction(view, Head(reqs)), Tail(reqs))

\* the view of the engine after construction
InitialView == View(SetupState(FundedAddresses), <<>>, <<>>)

\* the requests whose handler has returned, in write-lock order
Returned_requests ==
    LET in_order == [i \in 1..Len(acquired) |-> requests[acquired[i]]]
        has_returned(req) == req.phase = "returned"
    IN SelectSeq(in_order, has_returned)

\* C21: requests sent concurrently are admitted in the order in which they
\* get the write lock: whenever no handler is between its executor and its
\* return, the pending state, the transaction index and the pending block
\* are those of running the returned add operations one after another in
\* write-lock order
C21_AdmissionOrderIsLockOrder ==
    (\A request \in Requests : requests[request].phase # "executed")
        => View(pending_state, transactions, pending_block)
               = sequential(InitialView, Returned_requests)

\* request 1 (nonce 0, the higher fee) was sent first and request 2 (nonce
\* 1, the lower fee) got the lock first: request 2 is rejected and request 1
\* accepted, neither the fee nor the nonce nor the arrival decided the order
C21_Witness ==
    /\ acquired = <<2, 1>>
    /\ \A request \in Requests :
           /\ requests[request].phase = "returned"
           /\ requests[request].kind = "invoke"
           /\ requests[request].tx.sender_address = PredeployedAddress
    /\ requests[1].tx.nonce = 0 /\ requests[2].tx.nonce = 1
    /\ requests[1].tx.max_fee > requests[2].tx.max_fee
    /\ requests[2].tx.max_fee > 0
    /\ transactions[request_transaction_hash(requests[2])].status = "Rejected"
    /\ transactions[request_transaction_hash(requests[1])].status = "AcceptedOnL2"
    /\ pending_block = <<request_transaction_hash(requests[1])>>

\* C30: a reader that holds the read lock has read no speculative state:
\* no add handler holds the write lock meanwhile, and what the reader read
\* (pending state, transaction index, pending block) is the outcome of the
\* handlers that have returned, run whole and in write-lock order; it holds
\* no write of a rejected transaction and no index entry whose state
\* effects are missing
C30_ReadersSeeNoSpeculativeState ==
    \A reader \in Readers :
        reader \in lock.readers
            => /\ lock.writers = {}
               /\ \A request \in Requests :
                      requests[request].phase \notin {"locked", "executed"}
               /\ observed[reader] = sequential(InitialView, Returned_requests)

\* a reader holds the read lock after an invoke was rejected whose executor
\* had written to the pending state, while another request waits for the
\* write lock: the reader sees the rejected entry and the restored state
C30_Witness ==
    \E reader \in Readers, rejected \in Requests, waiting \in Requests :
        LET req == requests[rejected]
        IN /\ reader \in lock.readers
           /\ requests[waiting].phase = "waiting"
           /\ req.phase = "returned"
           /\ req.kind = "invoke"
           /\ ~prechecks_failed(req)
           /\ request_execute(req, req.state_before_txn).state
                  # req.state_before_txn
           /\ request_transaction_hash(req) \in DOMAIN observed[reader].transactions
           /\ observed[reader].transactions[request_transaction_hash(req)].status
                  = "Rejected"
           /\ observed[reader].pending_state = req.state_before_txn

\* an add request is indexed: its transaction is in the index under its
\* hash with one of the two statuses
is_indexed(request) ==
    /\ requests[request].phase # "idle"
    /\ request_transaction_hash(requests[request]) \in DOMAIN transactions
    /\ transactions[request_transaction_hash(requests[request])].status
           \in {"AcceptedOnL2", "Rejected"}

\* C29: every transaction that has passed the prechecks and been executed
\* is eventually indexed as AcceptedOnL2 or Rejected, its caller connected
\* or not
C29_Original ==
    \A request \in Requests :
        (requests[request].phase = "executed") ~> is_indexed(request)

====
